---- MODULE Spec2Model ----
(***************************************************************************)
(* A model of the SEO audit backend, api/audit.js: the POST /api/analyze   *)
(* handler (first variant of the file, lines 99-656), its 30 s timer, the  *)
(* primary page fetch, the auxiliary probes, the heading reconciliation,   *)
(* the scorer and the recommendation rules.                                *)
(*                                                                         *)
(* Time is counted in units of 5 seconds (the greatest common divisor of   *)
(* the timeouts 30 s, 15 s and 10 s of the code).  clock is the time at    *)
(* which the await the handler is suspended on began.                      *)
(*                                                                         *)
(* axios, cheerio, the XML parser and the JS regular-expression engine are *)
(* libraries outside the repository: what they return is an input of the   *)
(* model, drawn from small sets; what the handler does with it is          *)
(* translated from the code.                                               *)
(***************************************************************************)
EXTENDS Integers, Sequences, FiniteSets, TLC

VARIABLES
    pc,               \* where the async handler is suspended
    url,              \* req.body.url
    clock,            \* time (5 s units) at which the pending await began
    timer,            \* the 30 s timer: "unarmed", "armed", "fired", "cleared"
    firedAt,          \* the await during which the timer fired, or "never"
    responses,        \* what was written to the client, in order
    writeErrors,      \* res.json() calls that threw ERR_HTTP_HEADERS_SENT
    unhandled,        \* a rejection escaped the handler's catch block
    netCalls,         \* the network calls issued, in order
    primary,          \* how the primary GET ended
    page,             \* the signals cheerio and the regexes extract
    securityHeaders,  \* result of checkSecurityHeaders
    robotsInfo,       \* result of fetchRobotsTxt
    sitemapInfo,      \* result of fetchXmlSitemap
    imgLoop,          \* checkImageSizes: i, total, counted
    report,           \* the body of the 200 response
    hd,               \* heading reconciliation on its own: input and result
    sc,               \* scorer on its own: the scores computed so far (stage of them)
    rs,               \* report assembly on its own: one run's inputs and its res.json body
    sub,              \* a set of recommendation rules and whether some analysis fires exactly it
    process,          \* the Node process: "up", "exiting" (exit scheduled), "down"
    peer              \* another request in flight: "none", "inflight", "answered", "dropped"

vars == <<pc, url, clock, timer, firedAt, responses, writeErrors, unhandled,
          netCalls, primary, page, securityHeaders, robotsInfo, sitemapInfo,
          imgLoop, report, hd, sc, rs, sub, process, peer>>

(***************************************************************************)
(* Bounds of the model.                                                    *)
(***************************************************************************)
MaxHeadings == 2
MaxScripts == 51
MaxCss == 1
MaxAnchors == 2
MaxImages == 6

(***************************************************************************)
(* Program constants, in 5 s units where they are durations.               *)
(***************************************************************************)
HandlerTimeout == 6
PrimaryTimeout == 6
HeadTimeout == 2
RobotsTimeout == 3
SitemapTimeout == 3
ImageTimeout == 2
ImageLimit == 5

Max(a, b) == IF a >= b THEN a ELSE b
Min(a, b) == IF a <= b THEN a ELSE b

(***************************************************************************)
(* JavaScript values of req.body.url.  Values that are not strings are     *)
(* written in angle brackets.                                              *)
(***************************************************************************)
NonStringValues == {"<undefined>", "<null>", "<number 0>", "<number 42>", "<object>"}
StringValues == {"", "not a url", "http://site.test/", "https://site.test/"}
UrlInputs == NonStringValues \cup StringValues

Truthy(u) == u \notin {"<undefined>", "<null>", "<number 0>", ""}
IsString(u) == u \in StringValues

\* new URL(u) succeeds (line 302; axios parses the URL the same way)
IsAbsoluteUrl(u) == u \in {"http://site.test/", "https://site.test/"}

\* line 318
hasSSL(u) == u = "https://site.test/"

\* A bug: the type test of the validation is dropped.
InvalidInput_NoTypeTest(u) == ~Truthy(u)

\* line 106: if (!url || typeof url !== 'string')
InvalidInput(u) == ~Truthy(u) \/ ~IsString(u)

(***************************************************************************)
(* Numbers that JavaScript computes as floating-point quotients are kept   *)
(* as exact fractions [n, d]; d = 0 stands for NaN (0 / 0), which compares *)
(* false with everything.                                                  *)
(***************************************************************************)
Ratio(n, d) == [n |-> n, d |-> d]
\* r > a / b   and   r < a / b,   for b > 0
Greater(r, a, b) == r.d > 0 /\ r.n * b > a * r.d
Less(r, a, b) == r.d > 0 /\ r.n * b < a * r.d

AppendIf(s, cond, x) == IF cond THEN Append(s, x) ELSE s

(***************************************************************************)
(* Heading detection, lines 151-293.  A page gives, per level, the count   *)
(* of each strategy: dom ($('hN').length), regex (htmlContent.match of     *)
(* <hN ...>...</hN>), brute (the same regex on the comment-stripped text,  *)
(* h1 and h2 only) and raw (occurrences of "<hN", h2 and h3 only).         *)
(***************************************************************************)
Levels == 1..6

\* A bug: the comment-stripped count overrides the DOM count as soon as it
\* exceeds the regex count alone.
method5_NoDomGuard(dom, regex, brute) == IF brute > regex THEN brute ELSE dom

\* lines 249-257: hNCountCheerio after method 5
method5(dom, regex, brute) ==
    IF brute > dom /\ brute > regex THEN brute ELSE dom

\* lines 272-277
headingCounts(h) ==
    [n \in Levels |->
        CASE n = 1 -> Max(method5(h.dom[1], h.regex[1], h.brute[1]), h.regex[1])
          [] n = 2 -> Max(Max(method5(h.dom[2], h.regex[2], h.brute[2]), h.regex[2]),
                          h.raw[2])
          [] n = 3 -> Max(Max(h.dom[3], h.regex[3]), h.raw[3])
          [] OTHER -> Max(h.dom[n], h.regex[n])]

(***************************************************************************)
(* The first H1, lines 288-293.  firstH1 is h1Matches[0], the first match  *)
(* of h1Regex, cut into pieces: each piece is one tag, one run of white    *)
(* space or one run of text without '<'; it is <<>> when the regex found   *)
(* nothing.  domH1Text is $('h1').first().text(), which the code only      *)
(* logs.                                                                   *)
(***************************************************************************)
TagPieces ==
    {"<h1>", "<h1 class=\"hero\">", "</h1>", "<em>", "</em>", "<img src=\"logo.png\">"}
WhitespacePieces == {" ", "\n"}

\* .replace(/<\/?[^>]+(>|$)/g, ''): each tag is removed
StripTags(pieces) == SelectSeq(pieces, LAMBDA piece : piece \notin TagPieces)

RECURSIVE TrimStart(_)
TrimStart(pieces) ==
    IF pieces # <<>> /\ Head(pieces) \in WhitespacePieces
    THEN TrimStart(Tail(pieces)) ELSE pieces

RECURSIVE TrimEnd(_)
TrimEnd(pieces) ==
    IF pieces # <<>> /\ pieces[Len(pieces)] \in WhitespacePieces
    THEN TrimEnd(SubSeq(pieces, 1, Len(pieces) - 1)) ELSE pieces

\* .trim()
Trim(pieces) == TrimEnd(TrimStart(pieces))

\* the string the pieces spell
RECURSIVE Text(_)
Text(pieces) == IF pieces = <<>> THEN "" ELSE Head(pieces) \o Text(Tail(pieces))

\* A bug: the text is read from the first parsed h1 element.
h1Text_FromDom(h, counts) ==
    IF counts[1] > 0 THEN h.domH1Text ELSE ""

\* lines 289-293: the text comes from the first regex match only
h1Text(h, counts) ==
    IF counts[1] > 0 /\ h.regex[1] > 0 THEN Text(Trim(StripTags(h.firstH1))) ELSE ""

NoHeadings ==
    [dom |-> [n \in Levels |-> 0], regex |-> [n \in Levels |-> 0],
     brute |-> [n \in 1..2 |-> 0], raw |-> [n \in 2..3 |-> 0],
     firstH1 |-> <<>>, domH1Text |-> ""]

WelcomeH1 == <<"<h1>", "Welcome", "</h1>">>

(***************************************************************************)
(* Keyword density, lines 343-358.  Title and body text are sequences of   *)
(* lower-case words of a small vocabulary in which no word contains        *)
(* another, so that the matches of a keyword in the body are the body      *)
(* words equal to it.  "(tips" is not a valid regular expression: new      *)
(* RegExp("(tips", "gi") throws SyntaxError (unterminated group).          *)
(***************************************************************************)
Vocabulary == {"the", "with", "seo", "guide", "(tips"}
StopList == {"and", "the", "for", "with"}
InvalidPatterns == {"(tips"}

RECURSIVE Filter(_, _)
Filter(s, keep) ==
    IF s = <<>> THEN <<>>
    ELSE IF Head(s) \in keep THEN <<Head(s)>> \o Filter(Tail(s), keep)
         ELSE Filter(Tail(s), keep)

\* A bug: the filter on the word length is left out.
potentialKeywords_KeepsShort(title) ==
    Filter(title, {w \in Vocabulary : w \notin StopList})

\* lines 347-349
potentialKeywords(title) ==
    Filter(title, {w \in Vocabulary : Len(w) > 3 /\ w \notin StopList})

\* line 345 and 351: a keyword is looked for
hasKeyword(p) == p.title # <<>> /\ p.body # <<>> /\ potentialKeywords(p.title) # <<>>

\* line 354: new RegExp(keyword, 'gi') throws
keywordRegexThrows(p) ==
    hasKeyword(p) /\ potentialKeywords(p.title)[1] \in InvalidPatterns

\* lines 344-358
keywordDensity(p) ==
    IF hasKeyword(p)
    THEN LET keyword == potentialKeywords(p.title)[1]
             matches == Cardinality({i \in 1..Len(p.body) : p.body[i] = keyword})
         IN  Ratio(matches * 100, Max(Len(p.body), 1))
    ELSE Ratio(0, 1)

(***************************************************************************)
(* The title, lines 133-141.  The text of <title> is a sequence of         *)
(* lower-case words, separators and the marker 'SEO Audit Tool'; with the  *)
(* marker in it, the title is what stands in front of the first marker,    *)
(* less one closing run of separator characters.                           *)
(***************************************************************************)
Marker == "SEO Audit Tool"
Separators == {"|", "-"}

RECURSIVE BeforeMarker(_)
BeforeMarker(words) ==
    IF words = <<>> \/ Head(words) = Marker THEN <<>>
    ELSE <<Head(words)>> \o BeforeMarker(Tail(words))

cleanTitle(words) ==
    IF \E i \in DOMAIN words : words[i] = Marker
    THEN LET front == BeforeMarker(words)
         IN  IF front # <<>> /\ front[Len(front)] \in Separators
             THEN SubSeq(front, 1, Len(front) - 1) ELSE front
    ELSE words

(***************************************************************************)
(* Link counts, lines 302-303.  An href is a sequence of pieces of text    *)
(* cut so that the prefixes the selectors test ("/", "http", the URL,      *)
(* "http://" + hostname, "https://" + hostname) are made of whole pieces:  *)
(* an attribute-starts-with selector [href^="x"] matches when the pieces   *)
(* of x begin the pieces of the href.  An anchor without href (or with an  *)
(* empty one) is the empty sequence.                                       *)
(***************************************************************************)
StartsWith(s, prefix) ==
    Len(s) >= Len(prefix) /\ SubSeq(s, 1, Len(prefix)) = prefix

UrlPieces(u) ==
    IF u = "https://site.test/" THEN <<"http", "s", "://", "site.test", "/">>
    ELSE <<"http", "://", "site.test", "/">>

\* new URL(url).hostname
hostname(u) == "site.test"

\* line 302: a[href^="/"], a[href^=url], a[href^="http://host"], a[href^="https://host"]
internalLinks(p, u) ==
    Cardinality({i \in 1..Len(p.anchors) :
        \/ StartsWith(p.anchors[i], <<"/">>)
        \/ StartsWith(p.anchors[i], UrlPieces(u))
        \/ StartsWith(p.anchors[i], <<"http", "://", hostname(u)>>)
        \/ StartsWith(p.anchors[i], <<"http", "s", "://", hostname(u)>>)})

\* A bug: the :not() exclusions of the external selector are left out.
externalLinks_NoExclusion(p, u) ==
    Cardinality({i \in 1..Len(p.anchors) : StartsWith(p.anchors[i], <<"http">>)})

\* line 303: a[href^="http"]:not([href^=url]):not([href^="http://host"]):not([href^="https://host"])
externalLinks(p, u) ==
    Cardinality({i \in 1..Len(p.anchors) :
        /\ StartsWith(p.anchors[i], <<"http">>)
        /\ ~StartsWith(p.anchors[i], UrlPieces(u))
        /\ ~StartsWith(p.anchors[i], <<"http", "://", hostname(u)>>)
        /\ ~StartsWith(p.anchors[i], <<"http", "s", "://", hostname(u)>>)})

(***************************************************************************)
(* Scorer, lines 420-453.                                                  *)
(***************************************************************************)
ContainsNoindex(robotsMeta) == robotsMeta \in {"noindex", "noindex, nofollow"}
\* line 368
hasMobileViewport(viewportMeta) ==
    viewportMeta \in {"width=device-width", "width=device-width, initial-scale=1"}

\* lines 420-429
calculateTechnicalScore(a) ==
    Min((IF a.hasSSL THEN 20 ELSE 0) +
        (IF a.hasMobileViewport THEN 15 ELSE 0) +
        (IF a.canonicalUrl # "" THEN 10 ELSE 0) +
        (IF ~ContainsNoindex(a.robotsMeta) THEN 15 ELSE 0) +
        (IF a.totalResourceHints # 0 THEN 10 ELSE 0) +
        (IF "hasContentSecurityPolicy" \in a.securityHeaders.present THEN 10 ELSE 0),
        100)

\* A bug: the H1 bonus is given to every page that has an H1.
calculateContentScore_AnyH1(a) ==
    Min((IF Greater(a.textToCodeRatio, 1, 10) THEN 20 ELSE 0) +
        (IF a.h1Count >= 1 THEN 20 ELSE 0) +
        (IF a.h2Count >= 2 THEN 10 ELSE 0) +
        (IF Greater(a.keywordDensity, 1, 2) /\ Less(a.keywordDensity, 5, 1)
         THEN 10 ELSE 0),
        100)

\* lines 431-438
calculateContentScore(a) ==
    Min((IF Greater(a.textToCodeRatio, 1, 10) THEN 20 ELSE 0) +
        (IF a.h1Count = 1 THEN 20 ELSE 0) +
        (IF a.h2Count >= 2 THEN 10 ELSE 0) +
        (IF Greater(a.keywordDensity, 1, 2) /\ Less(a.keywordDensity, 5, 1)
         THEN 10 ELSE 0),
        100)

\* A bug: the lower clamp is forgotten.
performanceScore_NoClamp(scriptCount, cssCount) == 100 - (scriptCount + cssCount) * 2

\* line 452
performanceScore(scriptCount, cssCount) ==
    Max(100 - (scriptCount + cssCount) * 2, 0)

\* A bug: Math.floor (or a truncating integer conversion) instead of Math.round.
calculateWeightedScore_Truncates(s) ==
    (4 * s.technical + 4 * s.content + 2 * s.performance) \div 10

\* lines 440-443.  0.4 t + 0.4 c + 0.2 p is the fraction (4t + 4c + 2p) / 10
\* and Math.round(x) is floor(x + 1/2).  The binary rounding error of the
\* three products and two sums is below 1e-13, and an exact value is a
\* multiple of 1/5, never closer than 1/10 to a half-integer: the double the
\* code rounds and the exact fraction round to the same integer.
calculateWeightedScore(s) ==
    (4 * s.technical + 4 * s.content + 2 * s.performance + 5) \div 10

(***************************************************************************)
(* Auxiliary probes.  A call's outcome is [kind |-> "response", ...], or   *)
(* [kind |-> "error"] (a network-level failure), or [kind |-> "timeout"]   *)
(* (the call's own axios timeout).  The probes pass                        *)
(* validateStatus: () => true, so every status is a response.              *)
(***************************************************************************)
Failed(outcome) == outcome.kind # "response"

\* lines 377-382: flag and the headers that set it
HeaderFlags ==
    [hasXFrameOptions |-> {"x-frame-options"},
     hasContentSecurityPolicy |-> {"content-security-policy"},
     hasXXSSProtection |-> {"x-xss-protection"},
     hasStrictTransportSecurity |-> {"strict-transport-security"},
     hasReferrerPolicy |-> {"referrer-policy"},
     hasPermissionsPolicy |-> {"permissions-policy", "feature-policy"}]

\* lines 372-388.  empty: the function returned {} (the catch branch).
checkSecurityHeaders(outcome) ==
    IF Failed(outcome)
    THEN [empty |-> TRUE, present |-> {}]
    ELSE [empty |-> FALSE,
          present |-> {f \in DOMAIN HeaderFlags : HeaderFlags[f] \cap outcome.headers # {}}]

\* lines 465-475.  res.data.split throws when the body is not a string
\* (axios parses a JSON body), and the catch branch answers.
fetchRobotsTxt(outcome) ==
    IF Failed(outcome) THEN [exists |-> FALSE, status |-> 0, disallows |-> 0, error |-> TRUE]
    ELSE IF outcome.status >= 400
         THEN [exists |-> FALSE, status |-> outcome.status, disallows |-> 0, error |-> FALSE]
    ELSE IF ~outcome.isString
         THEN [exists |-> FALSE, status |-> 0, disallows |-> 0, error |-> TRUE]
    ELSE [exists |-> TRUE, status |-> outcome.status, disallows |-> outcome.disallows,
          error |-> FALSE]

\* lines 477-490.  outcome.parsed is what parser.parse gives: "throws",
\* "no-urlset", "array" (urlset.url is an array of outcome.n entries),
\* "object" (one entry) or "empty" (one entry parsed to the empty string).
fetchXmlSitemap(outcome) ==
    IF Failed(outcome) THEN [exists |-> FALSE, urlCount |-> 0, status |-> 0, error |-> TRUE]
    ELSE IF outcome.status >= 400
         THEN [exists |-> FALSE, urlCount |-> 0, status |-> outcome.status, error |-> FALSE]
    ELSE [exists |-> TRUE,
          urlCount |-> CASE outcome.parsed = "array" /\ outcome.n > 0 -> outcome.n
                         [] outcome.parsed = "object" -> 1
                         [] OTHER -> 0,
          status |-> 0, error |-> FALSE]

\* line 509: $('img').slice(0, limit)
sampledImages(p) == SubSeq(p.imgs, 1, Min(Len(p.imgs), ImageLimit))

\* A bug: an image without usable src ends the loop (break for continue).
RECURSIVE nextImage_StopsAtMissing(_, _)
nextImage_StopsAtMissing(imgs, i) ==
    IF i > Len(imgs) THEN 0
    ELSE IF imgs[i].src = "ok" THEN i
    ELSE 0

\* lines 511-515: the first image at or after i whose src resolves, or 0
RECURSIVE nextImage(_, _)
nextImage(imgs, i) ==
    IF i > Len(imgs) THEN 0
    ELSE IF imgs[i].src = "ok" THEN i
    ELSE nextImage(imgs, i + 1)

\* lines 516-520: one HEAD answer added to the running total
addImage(loop, outcome) ==
    IF ~Failed(outcome) /\ outcome.contentLength # 0
    THEN [loop EXCEPT !.total = @ + outcome.contentLength, !.counted = @ + 1]
    ELSE loop

\* line 522.  Math.round(total / counted) is floor(total / counted + 1/2).
imageSizeInfo(loop) ==
    [sampled |-> loop.counted,
     avgSize |-> IF loop.counted # 0
                 THEN (2 * loop.total + loop.counted) \div (2 * loop.counted)
                 ELSE 0]

\* lines 525-530.  cc.maxAge is the number after "max-age=", -1 without one.
\* A bug: thirty days exactly count as far-future.
evaluateCaching_AtLeast(cc) ==
    LET maxAge == IF cc.present /\ cc.maxAge >= 0 THEN cc.maxAge ELSE 0
    IN  [maxAgeSeconds |-> maxAge, good |-> maxAge >= 2592000]

evaluateCaching(cc) ==
    LET maxAge == IF cc.present /\ cc.maxAge >= 0 THEN cc.maxAge ELSE 0
    IN  [maxAgeSeconds |-> maxAge, good |-> maxAge > 2592000]

\* A bug: the scheme of the page's URL is not looked at.
mixedContentCheck_NoSchemeTest(p, u) == [mixedCount |-> p.httpAssets]

\* lines 532-536
mixedContentCheck(p, u) ==
    IF u \notin {"https://site.test/"} THEN [mixedCount |-> 0]
    ELSE [mixedCount |-> p.httpAssets]

\* lines 538-544
validateStructuredData(p) == [errors |-> p.ldJsonInvalid]

\* lines 492-500
validateHreflang(p) ==
    IF p.hreflang = <<>> THEN [hasHreflang |-> FALSE, count |-> 0, errors |-> <<>>]
    ELSE [hasHreflang |-> TRUE, count |-> Len(p.hreflang),
          errors |-> IF \E i \in 1..Len(p.hreflang) : p.hreflang[i] = "x-default"
                     THEN <<>> ELSE <<"Missing x-default hreflang">>]

(***************************************************************************)
(* Recommendations.  An entry is the rule's message and the number the     *)
(* message embeds (0 when it embeds none).                                 *)
(***************************************************************************)
Rec(text, n) == [text |-> text, n |-> n]
imgWithAltCount(p) == Cardinality({i \in 1..Len(p.imgs) : p.imgs[i].alt})

\* A bug: the rule on images without alt text is left out.
basicRecommendations_NoAltRule(p, counts) ==
    LET r1 == AppendIf(<<>>, ~hasMobileViewport(p.viewportMeta),
                       Rec("Add a viewport meta tag for mobile responsiveness", 0))
        r2 == AppendIf(r1, counts[1] = 0, Rec("Add at least one H1 heading", 0))
        r4 == AppendIf(r2, Less(keywordDensity(p), 1, 2),
                       Rec("Use your primary keyword more frequently in body copy", 0))
    IN  AppendIf(r4, p.structuredDataCount = 0,
                 Rec("Implement schema.org structured data", 0))

\* lines 455-460
basicRecommendations(p, counts) ==
    LET r1 == AppendIf(<<>>, ~hasMobileViewport(p.viewportMeta),
                       Rec("Add a viewport meta tag for mobile responsiveness", 0))
        r2 == AppendIf(r1, counts[1] = 0, Rec("Add at least one H1 heading", 0))
        r3 == AppendIf(r2, imgWithAltCount(p) < Len(p.imgs),
                       Rec("Add alt text to N images", Len(p.imgs) - imgWithAltCount(p)))
        r4 == AppendIf(r3, Less(keywordDensity(p), 1, 2),
                       Rec("Use your primary keyword more frequently in body copy", 0))
    IN  AppendIf(r4, p.structuredDataCount = 0,
                 Rec("Implement schema.org structured data", 0))

\* A bug: the new rules are put in front of the basic ones.
advancedRecommendations_InFront(recs, p, u, robots, sitemap) ==
    AppendIf(<<>>, ~robots.exists, Rec("Add a robots.txt", 0)) \o recs

\* lines 556-562
advancedRecommendations(recs, p, u, robots, sitemap) ==
    LET hreflangInfo == validateHreflang(p)
        mixed == mixedContentCheck(p, u).mixedCount
        sdErrors == validateStructuredData(p).errors
        r1 == AppendIf(recs, ~robots.exists, Rec("Add a robots.txt", 0))
        r2 == AppendIf(r1, ~sitemap.exists,
                       Rec("Add a sitemap.xml and reference it in robots.txt", 0))
        r3 == AppendIf(r2, hreflangInfo.errors # <<>>,
                       Rec("Fix hreflang issues: Missing x-default hreflang", 0))
        r4 == AppendIf(r3, mixed # 0,
                       Rec("N insecure (HTTP) assets found on HTTPS page", mixed))
        r5 == AppendIf(r4, ~evaluateCaching(p.cacheControl).good,
                       Rec("Serve static assets with far-future Cache-Control headers", 0))
    IN  AppendIf(r5, sdErrors # 0,
                 Rec("N structured-data blocks contain invalid JSON", sdErrors))

(***************************************************************************)
(* The scores of a page, lines 450-453, and the report, lines 567-632.     *)
(***************************************************************************)
pageScores(p, u, secHeaders) ==
    LET counts == headingCounts(p.heads)
        technical == calculateTechnicalScore(
            [hasSSL |-> hasSSL(u), hasMobileViewport |-> hasMobileViewport(p.viewportMeta),
             canonicalUrl |-> p.canonicalUrl, robotsMeta |-> p.robotsMeta,
             totalResourceHints |-> p.totalResourceHints, securityHeaders |-> secHeaders])
        content == calculateContentScore(
            [textToCodeRatio |-> Ratio(p.textLength, p.htmlLength),
             h1Count |-> counts[1], h2Count |-> counts[2],
             keywordDensity |-> keywordDensity(p)])
        performance == performanceScore(p.scriptCount, p.cssCount)
    IN  [technical |-> technical, content |-> content, performance |-> performance,
         overall |-> calculateWeightedScore(
             [technical |-> technical, content |-> content, performance |-> performance])]

NoReport == [sent |-> FALSE]

buildReport(p, u, secHeaders, robots, sitemap, loop) ==
    LET counts == headingCounts(p.heads)
    IN  [sent |-> TRUE,
         url |-> u,
         h1Text |-> h1Text(p.heads, counts),
         headings |-> counts,
         imgCount |-> Len(p.imgs),
         imgWithAltCount |-> imgWithAltCount(p),
         internalLinks |-> internalLinks(p, u),
         externalLinks |-> externalLinks(p, u),
         hasSSL |-> hasSSL(u),
         hasMobileViewport |-> hasMobileViewport(p.viewportMeta),
         scriptCount |-> p.scriptCount,
         cssCount |-> p.cssCount,
         keywordDensity |-> keywordDensity(p),
         structuredDataCount |-> p.structuredDataCount,
         scores |-> pageScores(p, u, secHeaders),
         robotsInfo |-> robots,
         sitemapInfo |-> sitemap,
         hreflangInfo |-> validateHreflang(p),
         imageSizeInfo |-> imageSizeInfo(loop),
         cachingInfo |-> evaluateCaching(p.cacheControl),
         mixedContentInfo |-> mixedContentCheck(p, u),
         structuredDataValidation |-> validateStructuredData(p),
         recommendations |->
             advancedRecommendations(basicRecommendations(p, counts), p, u, robots, sitemap)]

(***************************************************************************)
(* Pages of the handler's specification: a base page, varied where the     *)
(* control flow depends on the page.                                       *)
(***************************************************************************)
Img(src, alt) == [src |-> src, alt |-> alt]

BasePage ==
    [bodyType |-> "string",
     title |-> <<"seo", "guide">>,
     body |-> <<"the", "seo", "guide">>,
     heads |-> [NoHeadings EXCEPT !.dom[1] = 1, !.regex[1] = 1, !.brute[1] = 1,
                                  !.firstH1 = WelcomeH1, !.domH1Text = "Welcome"],
     imgs |-> <<>>,
     anchors |-> <<>>,
     viewportMeta |-> "width=device-width, initial-scale=1",
     canonicalUrl |-> "",
     robotsMeta |-> "",
     totalResourceHints |-> 0,
     scriptCount |-> 3,
     cssCount |-> 1,
     textLength |-> 40,
     htmlLength |-> 200,
     structuredDataCount |-> 0,
     ldJsonInvalid |-> 0,
     hreflang |-> <<>>,
     httpAssets |-> 1,
     cacheControl |-> [present |-> FALSE, maxAge |-> -1]]

PageTitles == {<<>>, <<"the", "seo", "guide">>, <<"(tips", "guide">>}
PageImages == {<<>>, <<Img("ok", TRUE)>>, <<Img("none", FALSE), Img("ok", FALSE)>>}

CtlPages ==
    {[BasePage EXCEPT !.bodyType = b, !.title = t, !.imgs = im] :
        b \in {"string", "object"}, t \in PageTitles, im \in PageImages}

NoPage == [bodyType |-> "none"]

(***************************************************************************)
(* What the network can answer.                                            *)
(***************************************************************************)
Err(code, status) == [kind |-> "error", code |-> code, status |-> status]

UpstreamStatuses == {404, 503}
ConnectCodes == {"ENOTFOUND", "ECONNREFUSED"}

\* axios.get of the page with the default validateStatus: a status outside
\* 2xx rejects with error.response set; a network failure rejects with
\* error.code set and no response; the axios timeout rejects with
\* ECONNABORTED.
PrimaryErrors ==
    {Err("ERR_BAD_RESPONSE", st) : st \in UpstreamStatuses}
        \cup {Err(c, 0) : c \in ConnectCodes \cup {"ECONNRESET", "ECONNABORTED"}}

PrimaryOk == [kind |-> "ok", code |-> "", status |-> 200]
NoOutcome == [kind |-> "none", code |-> "", status |-> 0]

Answer(status, headers) ==
    [kind |-> "response", status |-> status, headers |-> headers, isString |-> TRUE,
     disallows |-> 0, parsed |-> "", n |-> 0, contentLength |-> 0]
NetworkFailures == {[Answer(0, {}) EXCEPT !.kind = k] : k \in {"error", "timeout"}}

HeadOutcomes ==
    NetworkFailures \cup
    {Answer(st, h) : st \in {200, 404},
                     h \in {{}, {"content-security-policy"},
                            {"feature-policy", "x-frame-options"}}}

RobotsOutcomes ==
    NetworkFailures \cup {Answer(404, {})}
        \cup {[Answer(200, {}) EXCEPT !.disallows = k] : k \in 0..1}
        \cup {[Answer(200, {}) EXCEPT !.isString = FALSE]}

SitemapOutcomes ==
    NetworkFailures \cup {Answer(404, {})}
        \cup {[Answer(200, {}) EXCEPT !.parsed = x] :
                  x \in {"throws", "no-urlset", "object", "empty"}}
        \cup {[Answer(200, {}) EXCEPT !.parsed = "array", !.n = 2]}

ImageOutcomes ==
    NetworkFailures \cup {[Answer(200, {}) EXCEPT !.contentLength = k] : k \in {0, 100, 201}}

(***************************************************************************)
(* The handler.                                                            *)
(***************************************************************************)
Awaits == {"awaitPrimary", "awaitSecHead", "awaitRobots", "awaitSitemap", "awaitImage"}

\* the timeout option of the call the handler awaits
TimeoutOf(at) ==
    CASE at = "awaitPrimary" -> PrimaryTimeout
      [] at = "awaitSecHead" -> HeadTimeout
      [] at = "awaitRobots" -> RobotsTimeout
      [] at = "awaitSitemap" -> SitemapTimeout
      [] at = "awaitImage" -> ImageTimeout

Response(status, error, detail) == [status |-> status, error |-> error, detail |-> detail]

\* A bug: ECONNREFUSED is left out of the test.
catchResponse_OnlyNotFound(e) ==
    IF e.code = "ENOTFOUND"
    THEN Response(400, "Could not connect to the website", 0)
    ELSE IF e.status # 0
    THEN Response(e.status, "Website returned an error", e.status)
    ELSE Response(500, "Failed to analyze URL", 0)

\* A bug: an upstream error is always reported as a bad gateway.
catchResponse_BadGateway(e) ==
    IF e.code \in ConnectCodes
    THEN Response(400, "Could not connect to the website", 0)
    ELSE IF e.status # 0
    THEN Response(502, "Website returned an error", e.status)
    ELSE Response(500, "Failed to analyze URL", 0)

\* lines 640-654: the response of the catch block for error e
catchResponse(e) ==
    IF e.code \in ConnectCodes
    THEN Response(400, "Could not connect to the website", 0)
    ELSE IF e.status # 0
    THEN Response(e.status, "Website returned an error", e.status)
    ELSE Response(500, "Failed to analyze URL", 0)

\* lines 634-655.  res.status(s).json(b) throws ERR_HTTP_HEADERS_SENT when a
\* response was already written; thrown inside the catch block, it rejects
\* the handler's promise.
Catch(e) ==
    /\ timer' = IF timer = "armed" THEN "cleared" ELSE timer
    /\ IF responses = <<>>
       THEN responses' = <<catchResponse(e)>> /\ UNCHANGED <<writeErrors, unhandled>>
       ELSE /\ writeErrors' = writeErrors + 1
            /\ unhandled' = TRUE
            /\ UNCHANGED responses
    /\ pc' = "done"

\* lines 552-632, the end of the try block: clearTimeout, then res.json.
\* When the timer has already answered, res.json throws inside the try
\* block, the catch block runs and its own res.status(500).json throws too.
Finish(sitemap, loop) ==
    /\ timer' = IF timer = "armed" THEN "cleared" ELSE timer
    /\ IF responses = <<>>
       THEN /\ responses' = <<Response(200, "", 0)>>
            /\ report' = buildReport(page, url, securityHeaders, robotsInfo,
                                     sitemap, loop)
            /\ UNCHANGED <<writeErrors, unhandled>>
       ELSE /\ writeErrors' = writeErrors + 2
            /\ unhandled' = TRUE
            /\ UNCHANGED <<responses, report>>
    /\ pc' = "done"

\* The awaited call ends after d units; the timer fires at HandlerTimeout.
Timing(d) ==
    /\ d \in 0..TimeoutOf(pc)
    /\ timer = "armed" => clock + d <= HandlerTimeout
    /\ timer = "fired" => clock + d >= HandlerTimeout
    /\ clock' = clock + d

Ends(outcome, d) == Timing(d) /\ (outcome.kind = "timeout" => d = TimeoutOf(pc))

\* A bug: the security-header probe is started together with the page fetch.
Analyze_ProbeAtOnce(u) ==
    /\ pc = "idle"
    /\ url' = u
    /\ UNCHANGED <<clock, firedAt, writeErrors, unhandled, primary, page, securityHeaders,
                   robotsInfo, sitemapInfo, imgLoop, report, hd, sc, rs, sub, process, peer>>
    /\ IF InvalidInput(u)
       THEN /\ responses' = <<Response(400, "Invalid URL provided", 0)>>
            /\ pc' = "done"
            /\ UNCHANGED <<timer, netCalls>>
       ELSE /\ timer' = "armed"
            /\ pc' = "awaitPrimary"
            /\ UNCHANGED responses
            /\ netCalls' = netCalls \o <<"GET page", "HEAD page">>

\* lines 99-128: the request arrives, up to the first await
Analyze(u) ==
    /\ pc = "idle"
    /\ url' = u
    /\ UNCHANGED <<clock, firedAt, writeErrors, unhandled, primary, page, securityHeaders,
                   robotsInfo, sitemapInfo, imgLoop, report, hd, sc, rs, sub, process, peer>>
    /\ IF InvalidInput(u)
       THEN /\ responses' = <<Response(400, "Invalid URL provided", 0)>>
            /\ pc' = "done"
            /\ UNCHANGED <<timer, netCalls>>
       ELSE /\ timer' = "armed"
            /\ pc' = "awaitPrimary"
            /\ UNCHANGED responses
            \* axios up to 1.7 resolves a relative URL against
            \* http://localhost and connects; later versions reject it
            \* with ERR_INVALID_URL before any connection.
            /\ \/ netCalls' = Append(netCalls, "GET page")
               \/ ~IsAbsoluteUrl(u) /\ UNCHANGED netCalls

\* lines 112-115: the timer's callback
TimerFire ==
    /\ timer = "armed"
    /\ pc \in Awaits
    /\ clock + TimeoutOf(pc) >= HandlerTimeout
    /\ timer' = "fired"
    /\ firedAt' = pc
    /\ IF responses = <<>>
       THEN responses' = <<Response(504, "Request timed out", 0)>> /\ UNCHANGED writeErrors
       ELSE writeErrors' = writeErrors + 1 /\ UNCHANGED responses
    /\ UNCHANGED <<pc, url, clock, unhandled, netCalls, primary, page, securityHeaders,
                   robotsInfo, sitemapInfo, imgLoop, report, hd, sc, rs, sub, process, peer>>

\* lines 123-128 rejecting: the catch block
PrimaryFails ==
    /\ pc = "awaitPrimary"
    /\ \E e \in PrimaryErrors \cup {Err("ERR_INVALID_URL", 0)}, d \in 0..PrimaryTimeout :
        /\ Timing(d)
        /\ e.code = "ECONNABORTED" => d = PrimaryTimeout
        /\ IF netCalls = <<>> THEN e.code = "ERR_INVALID_URL" /\ d = 0
                              ELSE e.code # "ERR_INVALID_URL"
        /\ primary' = e
        /\ Catch(e)
    /\ UNCHANGED <<url, firedAt, netCalls, page, securityHeaders, robotsInfo, sitemapInfo,
                   imgLoop, report, hd, sc, rs, sub, process, peer>>

\* lines 131-358: what the extractors throw on page p of URL u, "" if nothing
extractorError(u, p) ==
    IF p.bodyType # "string" THEN "TypeError"          \* line 186: match is not a function
    ELSE IF ~IsAbsoluteUrl(u) THEN "ERR_INVALID_URL"   \* line 302: new URL(url)
    ELSE IF keywordRegexThrows(p) THEN "SyntaxError"   \* line 354: new RegExp(keyword)
    ELSE ""

\* lines 123-446: the page arrives, the extractors run, the HEAD probe starts
PrimarySucceeds ==
    /\ pc = "awaitPrimary"
    /\ netCalls # <<>>
    /\ \E p \in CtlPages, d \in 0..PrimaryTimeout :
        /\ Timing(d)
        /\ primary' = PrimaryOk
        /\ page' = p
        /\ IF extractorError(url, p) # ""
           THEN Catch(Err(extractorError(url, p), 0)) /\ UNCHANGED netCalls
           ELSE /\ netCalls' = Append(netCalls, "HEAD page")
                /\ pc' = "awaitSecHead"
                /\ UNCHANGED <<timer, responses, writeErrors, unhandled>>
    /\ UNCHANGED <<url, firedAt, securityHeaders, robotsInfo, sitemapInfo, imgLoop,
                   report, hd, sc, rs, sub, process, peer>>

\* lines 372-388 and 446-547: the HEAD probe ends, robots.txt is requested
SecHeadResolves ==
    /\ pc = "awaitSecHead"
    /\ \E o \in HeadOutcomes, d \in 0..HeadTimeout :
        /\ Ends(o, d)
        /\ securityHeaders' = checkSecurityHeaders(o)
    /\ netCalls' = Append(netCalls, "GET robots.txt")
    /\ pc' = "awaitRobots"
    /\ UNCHANGED <<url, timer, firedAt, responses, writeErrors, unhandled, primary, page,
                   robotsInfo, sitemapInfo, imgLoop, report, hd, sc, rs, sub, process, peer>>

\* lines 465-475 and 547-548
RobotsResolves ==
    /\ pc = "awaitRobots"
    /\ \E o \in RobotsOutcomes, d \in 0..RobotsTimeout :
        /\ Ends(o, d)
        /\ robotsInfo' = fetchRobotsTxt(o)
    /\ netCalls' = Append(netCalls, "GET sitemap.xml")
    /\ pc' = "awaitSitemap"
    /\ UNCHANGED <<url, timer, firedAt, responses, writeErrors, unhandled, primary, page,
                   securityHeaders, sitemapInfo, imgLoop, report, hd, sc, rs, sub, process, peer>>

NoLoop == [i |-> 0, total |-> 0, counted |-> 0]

\* lines 477-490 and 548-551: the sitemap probe ends and checkImageSizes
\* starts; without an image to sample the handler runs to its end
SitemapResolves ==
    /\ pc = "awaitSitemap"
    /\ \E o \in SitemapOutcomes, d \in 0..SitemapTimeout :
        /\ Ends(o, d)
        /\ sitemapInfo' = fetchXmlSitemap(o)
    /\ LET first == nextImage(sampledImages(page), 1)
       IN  IF first = 0
           THEN Finish(sitemapInfo', NoLoop) /\ UNCHANGED <<netCalls, imgLoop>>
           ELSE /\ netCalls' = Append(netCalls, "HEAD image")
                /\ imgLoop' = [NoLoop EXCEPT !.i = first]
                /\ pc' = "awaitImage"
                /\ UNCHANGED <<timer, responses, writeErrors, unhandled, report>>
    /\ UNCHANGED <<url, firedAt, primary, page, securityHeaders, robotsInfo, hd, sc, rs, sub, process, peer>>

\* lines 508-523 and 551-632: one image HEAD ends; the next image is probed
\* or the handler runs to its end
ImageResolves ==
    /\ pc = "awaitImage"
    /\ \E o \in ImageOutcomes, d \in 0..ImageTimeout :
        /\ Ends(o, d)
        /\ LET loop == addImage(imgLoop, o)
               next == nextImage(sampledImages(page), imgLoop.i + 1)
           IN  IF next = 0
               THEN /\ imgLoop' = loop
                    /\ Finish(sitemapInfo, loop)
                    /\ UNCHANGED netCalls
               ELSE /\ netCalls' = Append(netCalls, "HEAD image")
                    /\ imgLoop' = [loop EXCEPT !.i = next]
                    /\ UNCHANGED <<pc, timer, responses, writeErrors, unhandled, report>>
    /\ UNCHANGED <<url, firedAt, primary, page, securityHeaders, robotsInfo, sitemapInfo,
                   hd, sc, rs, sub, process, peer>>

\* lines 668-674: the rejection of the handler's promise is caught by
\* nobody (the router ignores the promise an async handler returns), the
\* process-level handler logs it and schedules process.exit(1)
UnhandledRejection ==
    /\ unhandled
    /\ process = "up"
    /\ process' = "exiting"
    /\ UNCHANGED <<pc, url, clock, timer, firedAt, responses, writeErrors, unhandled,
                   netCalls, primary, page, securityHeaders, robotsInfo, sitemapInfo,
                   imgLoop, report, hd, sc, rs, sub, peer>>

\* line 672, 3 s later: process.exit(1); a request still in flight is
\* never answered
ProcessExit ==
    /\ process = "exiting"
    /\ process' = "down"
    /\ peer' = IF peer = "inflight" THEN "dropped" ELSE peer
    /\ UNCHANGED <<pc, url, clock, timer, firedAt, responses, writeErrors, unhandled,
                   netCalls, primary, page, securityHeaders, robotsInfo, sitemapInfo,
                   imgLoop, report, hd, sc, rs, sub>>

HdIdle == [in |-> NoHeadings, done |-> FALSE, out |-> [n \in Levels |-> 0]]
ScIdle == [stage |-> 0, scriptCount |-> 0, cssCount |-> 0, technical |-> 0, content |-> 0,
           performance |-> 0, overall |-> 0]

RsIdle == [in |-> [requestId |-> ""], done |-> FALSE, out |-> NoReport]
SubIdle == [target |-> {}, searched |-> FALSE, found |-> FALSE]

\* no request yet
Idle ==
    /\ pc = "idle"
    /\ url = "<undefined>"
    /\ clock = 0
    /\ timer = "unarmed"
    /\ firedAt = "never"
    /\ responses = <<>>
    /\ writeErrors = 0
    /\ unhandled = FALSE
    /\ netCalls = <<>>
    /\ primary = NoOutcome
    /\ page = NoPage
    /\ securityHeaders = [empty |-> TRUE, present |-> {}]
    /\ robotsInfo = [exists |-> FALSE, status |-> 0, disallows |-> 0, error |-> FALSE]
    /\ sitemapInfo = [exists |-> FALSE, urlCount |-> 0, status |-> 0, error |-> FALSE]
    /\ imgLoop = NoLoop
    /\ report = NoReport
    /\ process = "up"
    /\ peer = "none"

Init == Idle /\ hd = HdIdle /\ sc = ScIdle /\ rs = RsIdle /\ sub = SubIdle

Next ==
    \/ \E u \in UrlInputs : Analyze(u)
    \/ TimerFire
    \/ PrimaryFails
    \/ PrimarySucceeds
    \/ SecHeadResolves
    \/ RobotsResolves
    \/ SitemapResolves
    \/ ImageResolves
    \/ UnhandledRejection
    \/ ProcessExit

Spec == Init /\ [][Next]_vars

(***************************************************************************)
(* The image sampler on pages of up to MaxImages images: the handler is    *)
(* taken where the sitemap probe is pending, after a page fetch, a HEAD    *)
(* probe and a robots.txt probe that succeeded at once or took 20 s in     *)
(* all, and runs on from there.                                            *)
(***************************************************************************)
SamplerImages ==
    UNION {[1..n -> {Img("ok", FALSE), Img("none", FALSE)}] : n \in 0..MaxImages}

InitSampler ==
    /\ pc = "awaitSitemap"
    /\ url = "https://site.test/"
    /\ clock \in {0, 4}
    /\ timer = "armed"
    /\ firedAt = "never"
    /\ responses = <<>>
    /\ writeErrors = 0
    /\ unhandled = FALSE
    /\ netCalls = <<"GET page", "HEAD page", "GET robots.txt", "GET sitemap.xml">>
    /\ primary = PrimaryOk
    /\ page \in {[BasePage EXCEPT !.imgs = im] : im \in SamplerImages}
    /\ securityHeaders = checkSecurityHeaders(Answer(200, {"content-security-policy"}))
    /\ robotsInfo = fetchRobotsTxt(Answer(200, {}))
    /\ sitemapInfo = [exists |-> FALSE, urlCount |-> 0, status |-> 0, error |-> FALSE]
    /\ imgLoop = NoLoop
    /\ report = NoReport
    /\ process = "up"
    /\ peer = "none"
    /\ hd = HdIdle
    /\ sc = ScIdle
    /\ rs = RsIdle
    /\ sub = SubIdle

NextSampler ==
    \/ TimerFire
    \/ SitemapResolves
    \/ ImageResolves
    \/ UnhandledRejection
    \/ ProcessExit

SpecSampler == InitSampler /\ [][NextSampler]_vars

(***************************************************************************)
(* The handler next to another request of the same process.  The other     *)
(* request runs the same handler; of it the model keeps whether it is in   *)
(* flight, answered, or dropped with the process.  The event loop runs     *)
(* every continuation whose call has ended (each call ends by its own      *)
(* timeout at the latest) and every timer that is due.                     *)
(***************************************************************************)
\* a request reaches the listening server
PeerArrives ==
    /\ peer = "none"
    /\ process # "down"
    /\ peer' = "inflight"
    /\ UNCHANGED <<pc, url, clock, timer, firedAt, responses, writeErrors, unhandled,
                   netCalls, primary, page, securityHeaders, robotsInfo, sitemapInfo,
                   imgLoop, report, hd, sc, rs, sub, process>>

\* its handler writes its response
PeerAnswered ==
    /\ peer = "inflight"
    /\ process # "down"
    /\ peer' = "answered"
    /\ UNCHANGED <<pc, url, clock, timer, firedAt, responses, writeErrors, unhandled,
                   netCalls, primary, page, securityHeaders, robotsInfo, sitemapInfo,
                   imgLoop, report, hd, sc, rs, sub, process>>

NextConcurrent == Next \/ PeerArrives \/ PeerAnswered

\* what the event loop has to run: every step but the arrival of a request
Progress ==
    \/ TimerFire
    \/ PrimaryFails
    \/ PrimarySucceeds
    \/ SecHeadResolves
    \/ RobotsResolves
    \/ SitemapResolves
    \/ ImageResolves
    \/ UnhandledRejection
    \/ ProcessExit
    \/ PeerAnswered

Fairness == WF_vars(Progress)

SpecConcurrent == Init /\ [][NextConcurrent]_vars /\ Fairness

(***************************************************************************)
(* The heading reconciliation on its own: every combination of strategy    *)
(* counts up to MaxHeadings at one level, the other levels all 0 or all 1. *)
(* A regex match and a parsed element both begin with "<hN", so the raw    *)
(* count of a level is never below its regex count or its DOM count.       *)
(* Pages for the corners: "<h1>a" gives dom 1, regex 0;                    *)
(* "<!--<h1>a</h1>-->" gives dom 0, regex 1, brute 0; "<h<!---->1>a</h1>"  *)
(* gives dom 0, regex 0, brute 1; "<h1>a<h1>b</h<!---->1>" gives dom 2,    *)
(* regex 0, brute 1.                                                       *)
(***************************************************************************)
HeadingProfile(n, bg, dom, regex, brute, raw) ==
    [dom |-> [k \in Levels |-> IF k = n THEN dom ELSE bg],
     regex |-> [k \in Levels |-> IF k = n THEN regex ELSE bg],
     brute |-> [k \in 1..2 |-> IF k = n THEN brute ELSE bg],
     raw |-> [k \in 2..3 |-> IF k = n THEN raw ELSE bg],
     firstH1 |-> IF (IF n = 1 THEN regex ELSE bg) > 0 THEN WelcomeH1 ELSE <<>>,
     domH1Text |-> IF (IF n = 1 THEN dom ELSE bg) > 0 THEN "Welcome" ELSE ""]

HeadingInputs ==
    {h \in {HeadingProfile(n, bg, d, r, b, w) :
                n \in Levels, bg \in 0..1, d \in 0..MaxHeadings, r \in 0..MaxHeadings,
                b \in 0..MaxHeadings, w \in 0..MaxHeadings} :
        \A k \in 2..3 : h.regex[k] <= h.raw[k] /\ h.dom[k] <= h.raw[k]}

InitHeadings ==
    /\ Idle
    /\ sc = ScIdle
    /\ rs = RsIdle
    /\ sub = SubIdle
    /\ hd \in {[HdIdle EXCEPT !.in = h] : h \in HeadingInputs}

\* lines 232-277 on the strategy counts of hd.in
ReconcileHeadings ==
    /\ ~hd.done
    /\ hd' = [hd EXCEPT !.done = TRUE, !.out = headingCounts(hd.in)]
    /\ UNCHANGED <<pc, url, clock, timer, firedAt, responses, writeErrors, unhandled,
                   netCalls, primary, page, securityHeaders, robotsInfo, sitemapInfo,
                   imgLoop, report, sc, rs, sub, process, peer>>

SpecHeadings == InitHeadings /\ [][ReconcileHeadings]_vars

(***************************************************************************)
(* The scorer on its own, lines 450-453 in their order, over every         *)
(* combination of the signals each score reads.                            *)
(***************************************************************************)
AllHeaders == UNION {HeaderFlags[f] : f \in DOMAIN HeaderFlags}

TechnicalArgs ==
    [hasSSL : BOOLEAN, hasMobileViewport : BOOLEAN,
     canonicalUrl : {"", "https://site.test/"},
     robotsMeta : {"", "noindex"},
     totalResourceHints : 0..1,
     securityHeaders : {checkSecurityHeaders(o) :
                          o \in HeadOutcomes \cup {Answer(200, AllHeaders)}}]

ContentArgs ==
    [textToCodeRatio : {Ratio(0, 0), Ratio(1, 10), Ratio(11, 100)},
     h1Count : 0..MaxHeadings,
     h2Count : 0..MaxHeadings,
     keywordDensity : {Ratio(0, 1), Ratio(100, 200), Ratio(100, 100), Ratio(100, 20),
                       Ratio(100, 1)}]

InitScore == Idle /\ hd = HdIdle /\ sc = ScIdle /\ rs = RsIdle /\ sub = SubIdle

UnchangedButSc ==
    UNCHANGED <<pc, url, clock, timer, firedAt, responses, writeErrors, unhandled,
                netCalls, primary, page, securityHeaders, robotsInfo, sitemapInfo,
                imgLoop, report, hd, rs, sub, process, peer>>

\* line 450
ScoreTechnical ==
    /\ sc.stage = 0
    /\ \E a \in TechnicalArgs :
        sc' = [sc EXCEPT !.stage = 1, !.technical = calculateTechnicalScore(a)]
    /\ UnchangedButSc

\* line 451
ScoreContent ==
    /\ sc.stage = 1
    /\ \E a \in ContentArgs :
        sc' = [sc EXCEPT !.stage = 2, !.content = calculateContentScore(a)]
    /\ UnchangedButSc

\* line 452
ScorePerformance ==
    /\ sc.stage = 2
    /\ \E scripts \in 0..MaxScripts, css \in 0..MaxCss :
        sc' = [sc EXCEPT !.stage = 3, !.scriptCount = scripts, !.cssCount = css,
                         !.performance = performanceScore(scripts, css)]
    /\ UnchangedButSc

\* line 453
ScoreOverall ==
    /\ sc.stage = 3
    /\ sc' = [sc EXCEPT !.stage = 4,
                        !.overall = calculateWeightedScore(
                            [technical |-> sc.technical, content |-> sc.content,
                             performance |-> sc.performance])]
    /\ UnchangedButSc

NextScore == ScoreTechnical \/ ScoreContent \/ ScorePerformance \/ ScoreOverall

SpecScore == InitScore /\ [][NextScore]_vars

(***************************************************************************)
(* The report assembly on its own, lines 131-632 without the waiting: one  *)
(* run is a request id (line 101), the time of new Date() (line 630), the  *)
(* URL, the extracted page and the answers of the probes.  Pages vary in   *)
(* every signal a recommendation rule or the content score reads.          *)
(***************************************************************************)
RequestIds == {"lq3x9a", "lq3x9b"}
Times == {1700000000, 1700000030}

H1Heads(k) ==
    [NoHeadings EXCEPT !.dom[1] = k, !.regex[1] = k, !.brute[1] = k,
                       !.firstH1 = IF k > 0 THEN WelcomeH1 ELSE <<>>,
                       !.domH1Text = IF k > 0 THEN "Welcome" ELSE ""]

\* the number of ld+json blocks and how many of them hold invalid JSON
\* (lines 340 and 538-544 count over the same selector)
LdJsonBlocks == {<<0, 0>>, <<1, 0>>, <<1, 1>>}

ReportPages ==
    {[BasePage EXCEPT !.viewportMeta = vp, !.heads = H1Heads(k), !.imgs = im,
                      !.title = t, !.structuredDataCount = ld[1],
                      !.ldJsonInvalid = ld[2], !.hreflang = hl, !.httpAssets = ha,
                      !.cacheControl = cc] :
        vp \in {"", "width=device-width, initial-scale=1"},
        k \in 0..MaxHeadings,
        im \in {<<>>, <<Img("none", FALSE)>>},
        t \in {<<>>, <<"seo", "guide">>},
        ld \in LdJsonBlocks,
        hl \in {<<>>, <<"en">>, <<"en", "x-default">>},
        ha \in 0..1,
        cc \in {[present |-> FALSE, maxAge |-> -1], [present |-> TRUE, maxAge |-> 31536000]}}

ReportRuns ==
    [requestId : RequestIds, now : Times,
     url : {"http://site.test/", "https://site.test/"},
     page : ReportPages,
     head : {Answer(200, {"content-security-policy"})},
     robots : {Answer(200, {}), Answer(404, {}), [Answer(200, {}) EXCEPT !.isString = FALSE]},
     sitemap : {Answer(404, {}), [Answer(200, {}) EXCEPT !.parsed = "object"]}]

\* A bug: the request id is copied into the report.
resJson_LeaksRequestId(run) ==
    [body |-> buildReport(run.page, run.url, checkSecurityHeaders(run.head),
                          fetchRobotsTxt(run.robots), fetchXmlSitemap(run.sitemap),
                          NoLoop),
     timestamp |-> run.now,
     requestId |-> run.requestId]

\* lines 445-632: the probes' results, the report and its timestamp.  The
\* pages of ReportPages have no image with a src, so checkImageSizes issues
\* no request.
resJson(run) ==
    [body |-> buildReport(run.page, run.url, checkSecurityHeaders(run.head),
                          fetchRobotsTxt(run.robots), fetchXmlSitemap(run.sitemap),
                          NoLoop),
     timestamp |-> run.now]

InitReport ==
    /\ Idle
    /\ hd = HdIdle
    /\ sc = ScIdle
    /\ sub = SubIdle
    /\ rs \in {[RsIdle EXCEPT !.in = run] : run \in ReportRuns}

UnchangedButRs ==
    UNCHANGED <<pc, url, clock, timer, firedAt, responses, writeErrors, unhandled,
                netCalls, primary, page, securityHeaders, robotsInfo, sitemapInfo,
                imgLoop, report, hd, sc, sub, process, peer>>

\* lines 445-632 on the run rs.in
AssembleReport ==
    /\ ~rs.done
    /\ rs' = [rs EXCEPT !.done = TRUE, !.out = resJson(rs.in)]
    /\ UnchangedButRs

SpecReport == InitReport /\ [][AssembleReport]_vars

(***************************************************************************)
(* The report assembly on families of runs that vary one group of signals  *)
(* each, the rest being that of BaseRun.                                   *)
(***************************************************************************)
BaseRun ==
    [requestId |-> "lq3x9a", now |-> 1700000000, url |-> "https://site.test/",
     page |-> BasePage,
     head |-> Answer(200, {"content-security-policy"}),
     robots |-> Answer(200, {}),
     sitemap |-> [Answer(200, {}) EXCEPT !.parsed = "object"]]

\* anchors: relative, protocol-relative, fragment, the page itself, the
\* host in either scheme, another host, a host that continues the page's
\* hostname, and a mail link
Hrefs ==
    {<<>>, <<"/", "about">>, <<"/", "/", "other.test", "/">>, <<"#", "top">>,
     <<"http", "://", "site.test", "/">>, <<"http", "s", "://", "site.test", "/">>,
     <<"http", "://", "site.test">>, <<"http", "s", "://", "site.test", "/", "a">>,
     <<"http", "://", "other.test", "/">>, <<"http", "s", "://", "other.test", "/">>,
     <<"http", "://", "site.test", ".evil", "/">>, <<"mailto:", "a@site.test">>}

AnchorLists == UNION {[1..n -> Hrefs] : n \in 0..MaxAnchors}

LinkRuns ==
    {[BaseRun EXCEPT !.url = u, !.page.anchors = as] :
        u \in {"http://site.test/", "https://site.test/"}, as \in AnchorLists}

\* first matches of h1Regex: plain, with attributes, inner tags and white
\* space, an image only, white space only
FirstH1Matches ==
    {WelcomeH1,
     <<"<h1 class=\"hero\">", " ", "Hello", " ", "<em>", "World", "</em>", "\n", "</h1>">>,
     <<"<h1>", "<img src=\"logo.png\">", "</h1>">>,
     <<"<h1>", " ", "</h1>">>}

\* text of the first parsed h1: that of the first regex match, or of another
\* h1 when the first match lies in a comment ("<!--<h1>Old</h1>--><h1>Welcome</h1>")
DomH1Texts == {"Welcome", " Hello World\n", "", " ", "Old"}

\* h1 pages: the strategies agree or not ("<h1>Welcome" is found by the
\* DOM strategy alone, an h1 in a comment by the regex strategy alone)
H1Profiles ==
    {[NoHeadings EXCEPT !.dom[1] = d, !.regex[1] = r, !.brute[1] = b,
                        !.firstH1 = first, !.domH1Text = text] :
        d \in 0..1, r \in 0..1, b \in 0..1,
        first \in FirstH1Matches \cup {<<>>}, text \in DomH1Texts \cup {""}}

HeadingRuns ==
    {[BaseRun EXCEPT !.page.heads = h] :
        h \in {g \in H1Profiles : /\ (g.regex[1] = 0) = (g.firstH1 = <<>>)
                                  /\ g.dom[1] = 0 => g.domH1Text = ""}}

\* Cache-Control of the page: no header, a header without max-age
\* ("no-cache"), and max-age of 0, thirty days, thirty days and a second,
\* a year
CacheControls ==
    {[present |-> FALSE, maxAge |-> -1]} \cup
    {[present |-> TRUE, maxAge |-> age] : age \in {-1, 0, 2592000, 2592001, 31536000}}

CachingRuns ==
    {[BaseRun EXCEPT !.page.cacheControl = cc, !.head = head, !.robots = robots] :
        cc \in CacheControls,
        head \in {Answer(200, {"content-security-policy"}), Answer(404, {})},
        robots \in {Answer(200, {}), Answer(404, {})}}

\* <title> texts: none, short or stop words only, a keyword, the marker
\* alone, in front of or behind the words
TitleTexts ==
    {<<>>, <<"the", "seo">>, <<"with", "the">>, <<"seo", "guide">>, <<"guide", "seo">>,
     <<Marker>>, <<Marker, "-", "guide">>, <<"guide", "|", Marker>>,
     <<"seo", "|", Marker, "guide">>}

BodyTexts ==
    {<<>>, <<"the", "seo", "guide">>, <<"with", "seo", "seo">>,
     <<"guide", "the", "the", "the", "the", "the", "the", "the", "the", "the",
       "the", "the", "the", "the", "the", "the", "the", "the", "the", "the",
       "the", "the", "the", "the", "the">>}

KeywordRuns ==
    {[BaseRun EXCEPT !.page.title = cleanTitle(t), !.page.body = b,
                     !.page.textLength = IF b = <<>> THEN 0 ELSE 40,
                     !.page.heads = H1Heads(k)] :
        t \in TitleTexts, b \in BodyTexts, k \in 0..1}

\* the number of <url> elements under <urlset> in the body of an answer
urlEntries(outcome) ==
    CASE outcome.parsed = "array" -> outcome.n
      [] outcome.parsed \in {"object", "empty"} -> 1
      [] OTHER -> 0

SitemapRuns ==
    {[BaseRun EXCEPT !.sitemap = o, !.robots = robots] :
        o \in SitemapOutcomes \cup {Answer(500, {}), [Answer(301, {}) EXCEPT !.parsed = "no-urlset"]},
        robots \in {Answer(200, {}), Answer(404, {})}}

SignalRuns == LinkRuns \cup HeadingRuns \cup CachingRuns \cup KeywordRuns \cup SitemapRuns

InitSignals ==
    /\ Idle
    /\ hd = HdIdle
    /\ sc = ScIdle
    /\ sub = SubIdle
    /\ rs \in {[RsIdle EXCEPT !.in = run] : run \in SignalRuns}

SpecSignals == InitSignals /\ [][AssembleReport]_vars

(***************************************************************************)
(* Which sets of recommendation rules can fire together: a set of rule     *)
(* messages is looked for among the reports of all analyses of RuleRuns    *)
(* (one request id and time; every page and probe answer of ReportRuns).   *)
(***************************************************************************)
RuleRuns ==
    [requestId : {"lq3x9a"}, now : {1700000000},
     url : {"http://site.test/", "https://site.test/"},
     page : ReportPages,
     head : {Answer(200, {"content-security-policy"})},
     robots : {Answer(200, {}), Answer(404, {})},
     sitemap : {Answer(404, {}), [Answer(200, {}) EXCEPT !.parsed = "object"]}]

\* lines 455-460 and 556-562: the rules that fired in the report of run
firedRules(run) ==
    LET recs == resJson(run).body.recommendations
    IN  {recs[i].text : i \in DOMAIN recs}

RealizedSubsets == {firedRules(run) : run \in RuleRuns}

AllRuleTexts == UNION RealizedSubsets

InitSubsets ==
    /\ Idle
    /\ hd = HdIdle
    /\ sc = ScIdle
    /\ rs = RsIdle
    /\ sub \in {[SubIdle EXCEPT !.target = S] : S \in SUBSET AllRuleTexts}

\* the search for an analysis whose recommendations are exactly sub.target
SearchAnalysis ==
    /\ ~sub.searched
    /\ sub' = [sub EXCEPT !.searched = TRUE, !.found = sub.target \in RealizedSubsets]
    /\ UNCHANGED <<pc, url, clock, timer, firedAt, responses, writeErrors, unhandled,
                   netCalls, primary, page, securityHeaders, robotsInfo, sitemapInfo,
                   imgLoop, report, hd, sc, rs, process, peer>>

SpecSubsets == InitSubsets /\ [][SearchAnalysis]_vars

(***************************************************************************)
(* Claims, under Spec unless said otherwise.                               *)
(***************************************************************************)
Answered == responses # <<>>

\* C1: when req.body.url is missing, empty or not a string, the request is
\* answered 400 at once: no network call is issued and the 30 s timer is
\* never armed.
C1_InvalidInputRejected ==
    (pc # "idle" /\ (~Truthy(url) \/ url \in NonStringValues)) =>
        /\ pc = "done"
        /\ responses = <<Response(400, "Invalid URL provided", 0)>>
        /\ netCalls = <<>>
        /\ timer = "unarmed"

\* A truthy value that is not a string was posted and rejected.
C1_Witness ==
    /\ url = "<number 42>"
    /\ pc = "done"
    /\ responses = <<Response(400, "Invalid URL provided", 0)>>

\* C2: a non-empty string that is no absolute URL ("not a url") is answered
\* 400 without any network call, and never 500.
C2_MalformedUrlRejected ==
    (pc # "idle" /\ IsString(url) /\ Truthy(url) /\ ~IsAbsoluteUrl(url)) =>
        /\ netCalls = <<>>
        /\ Answered => responses[1].status = 400

\* the primary fetch did not complete within the 30 s bound: the handler's
\* timer fired while the handler awaited it, or axios gave up at its timeout
PrimaryExceededBound == firedAt = "awaitPrimary" \/ primary.code = "ECONNABORTED"

C4_AnyConnectFailureIs400 ==
    (IsAbsoluteUrl(url) /\ primary.code \in ConnectCodes /\ Answered) =>
        responses[1] = Response(400, "Could not connect to the website", 0)

\* C4, amended: a primary fetch that fails with ENOTFOUND or ECONNREFUSED
\* before the handler's 30 s timer has fired is answered 400 "Could not
\* connect"; the test of the code comes first in the catch block, whatever
\* response status the error carries.
C4_ConnectFailureIs400 ==
    /\ (primary.code \in ConnectCodes /\ firedAt = "never") =>
           /\ pc = "done"
           /\ responses = <<Response(400, "Could not connect to the website", 0)>>
    /\ \A c \in ConnectCodes, st \in {0} \cup UpstreamStatuses :
           catchResponse(Err(c, st)) = Response(400, "Could not connect to the website", 0)

\* A refused connection was answered.
C4_Witness ==
    /\ primary.code = "ECONNREFUSED"
    /\ responses = <<Response(400, "Could not connect to the website", 0)>>

\* C5 as stated: when the site answers the primary GET with a 4xx/5xx
\* status, the response carries that status, whenever the answer arrives.
C5_AnyUpstreamStatusPropagated ==
    (primary.kind = "error" /\ primary.status >= 400 /\ Answered) =>
        responses[1] = Response(primary.status, "Website returned an error",
                                primary.status)

\* C5, amended: when the site answers the primary GET with a 4xx/5xx status
\* before the handler's 30 s timer has fired, the response carries that
\* status and a message naming it; in any case no probe is issued and no
\* extractor runs.
C5_UpstreamStatusPropagated ==
    (primary.kind = "error" /\ primary.status >= 400) =>
        /\ pc = "done"
        /\ firedAt = "never" =>
               responses = <<Response(primary.status, "Website returned an error",
                                      primary.status)>>
        /\ netCalls = <<"GET page">>
        /\ page = NoPage
        /\ report = NoReport

\* The site answered 503 and so did the analyzer.
C5_Witness ==
    /\ primary = Err("ERR_BAD_RESPONSE", 503)
    /\ Answered
    /\ responses[1].status = 503

\* the page arrived within the bound and every extractor ran to its end
ProbesReached ==
    /\ primary.kind = "ok"
    /\ firedAt # "awaitPrimary"
    /\ extractorError(url, page) = ""

\* C6: after a successful primary fetch, whatever way the auxiliary probes
\* fail (network error, timeout, HTTP >= 400), the request ends with a 200
\* report.
C6_ProbeFailuresStill200 ==
    (pc = "done" /\ ProbesReached) =>
        /\ responses = <<Response(200, "", 0)>>
        /\ report.sent

\* C7: once the primary GET has returned a successful response (in time),
\* the handler answers 200 whatever the page holds.
C7_SuccessfulFetchAlways200 ==
    (pc = "done" /\ IsAbsoluteUrl(url) /\ primary.kind = "ok" /\ firedAt = "never") =>
        /\ Answered
        /\ responses[1].status = 200

\* the counts of the strategies that examined level n
StrategyCounts(h, n) ==
    {h.dom[n], h.regex[n]}
        \cup (IF n \in 1..2 THEN {h.brute[n]} ELSE {})
        \cup (IF n \in 2..3 THEN {h.raw[n]} ELSE {})

\* C8 (SpecHeadings): the reported count of every level is the maximum of
\* the counts of the strategies that examined it: it is one of them and it
\* is at least each of them.
C8_MaxReconciliation ==
    hd.done =>
        \A n \in Levels :
            /\ hd.out[n] \in StrategyCounts(hd.in, n)
            /\ \A c \in StrategyCounts(hd.in, n) : hd.out[n] >= c

\* The comment-stripped count exceeded both other strategies at h1 and was
\* reported.
C8_Witness ==
    /\ hd.done
    /\ hd.in.brute[1] > hd.in.dom[1]
    /\ hd.in.brute[1] > hd.in.regex[1]
    /\ hd.out[1] = hd.in.brute[1]

\* C9 (SpecScore): each score, once computed, is an integer in [0, 100].
C9_ScoresInRange ==
    /\ sc.stage >= 1 => sc.technical \in 0..100
    /\ sc.stage >= 2 => sc.content \in 0..100
    /\ sc.stage >= 3 => sc.performance \in 0..100
    /\ sc.stage >= 4 => sc.overall \in 0..100

\* More than 50 scripts and stylesheets: the performance score is clamped.
C9_Witness ==
    /\ sc.stage = 4
    /\ (sc.scriptCount + sc.cssCount) * 2 > 100
    /\ sc.performance = 0
    /\ sc.technical = 80
    /\ sc.content = 60

\* C10 (SpecScore): the overall score is the integer nearest to
\* (4 technical + 4 content + 2 performance) / 10: it differs from that
\* fraction by at most 1/2, and by a half only upwards.
C10_WeightedRound ==
    sc.stage = 4 =>
        LET tenfold == 4 * sc.technical + 4 * sc.content + 2 * sc.performance
        IN  /\ 10 * sc.overall - tenfold <= 5
            /\ tenfold - 10 * sc.overall < 5

\* A triple whose weighted sum has a fraction above one half was rounded up.
C10_Witness ==
    /\ sc.stage = 4
    /\ (4 * sc.technical + 4 * sc.content + 2 * sc.performance) % 10 = 8
    /\ 10 * sc.overall = 4 * sc.technical + 4 * sc.content + 2 * sc.performance + 2

(***************************************************************************)
(* Claims under SpecReport.                                                *)
(***************************************************************************)
MixedContentText == "N insecure (HTTP) assets found on HTTPS page"

\* C11 (SpecReport): when the analyzed URL does not start with https://,
\* mixedContentInfo.mixedCount is 0 whatever number of http:// assets the
\* page has, hasSSL is false and the mixed-content recommendation is not in
\* the list.
C11_NoMixedContentOffHttps ==
    (rs.done /\ rs.in.url = "http://site.test/") =>
        /\ rs.out.body.mixedContentInfo.mixedCount = 0
        /\ ~rs.out.body.hasSSL
        /\ \A i \in DOMAIN rs.out.body.recommendations :
               rs.out.body.recommendations[i].text # MixedContentText

\* A page served over http:// with an http:// asset was reported.
C11_Witness ==
    /\ rs.done
    /\ rs.in.url = "http://site.test/"
    /\ rs.in.page.httpAssets = 1
    /\ rs.out.body.mixedContentInfo.mixedCount = 0

\* the response body without its timestamp
WithoutTimestamp(body) == [body EXCEPT !.timestamp = 0]

Fired(body) == {body.recommendations[i].text : i \in DOMAIN body.recommendations}

\* C13 (SpecReport): robotsInfo.exists is false exactly when the robots.txt
\* GET returned a status >= 400 or failed at network level, and 'Add a
\* robots.txt' is recommended exactly when robotsInfo.exists is false.
C13_RobotsAbsentOnlyOnFailure ==
    rs.done =>
        /\ ~rs.out.body.robotsInfo.exists
               <=> (rs.in.robots.kind # "response" \/ rs.in.robots.status >= 400)
        /\ "Add a robots.txt" \in Fired(rs.out.body) <=> ~rs.out.body.robotsInfo.exists

\* the content score the page of a report would get without any H1
ScoreWithoutH1(run, body) ==
    calculateContentScore(
        [textToCodeRatio |-> Ratio(run.page.textLength, run.page.htmlLength),
         h1Count |-> 0, h2Count |-> body.headings[2],
         keywordDensity |-> body.keywordDensity])

\* C14 (SpecReport): contentScore holds the 20-point H1 bonus iff the final
\* h1Count is exactly 1, and 'Add at least one H1 heading' is recommended
\* iff the final h1Count is 0; with two or more H1 there is neither.
C14_H1BonusAndRule ==
    rs.done =>
        LET body == rs.out.body
            bonus == body.scores.content - ScoreWithoutH1(rs.in, body)
        IN  /\ bonus = (IF body.headings[1] = 1 THEN 20 ELSE 0)
            /\ "Add at least one H1 heading" \in Fired(body) <=> body.headings[1] = 0

\* A page with two H1 got neither the bonus nor the recommendation.
C14_Witness ==
    /\ rs.done
    /\ rs.out.body.headings[1] = 2
    /\ rs.out.body.scores.content = ScoreWithoutH1(rs.in, rs.out.body)
    /\ "Add at least one H1 heading" \notin Fired(rs.out.body)

\* the messages of the rules of lines 456-460 and 557-562, in that order
RuleOrder ==
    <<"Add a viewport meta tag for mobile responsiveness",
      "Add at least one H1 heading",
      "Add alt text to N images",
      "Use your primary keyword more frequently in body copy",
      "Implement schema.org structured data",
      "Add a robots.txt",
      "Add a sitemap.xml and reference it in robots.txt",
      "Fix hreflang issues: Missing x-default hreflang",
      "N insecure (HTTP) assets found on HTTPS page",
      "Serve static assets with far-future Cache-Control headers",
      "N structured-data blocks contain invalid JSON">>

Rules == {RuleOrder[i] : i \in DOMAIN RuleOrder}
RuleIndex(text) == CHOOSE i \in DOMAIN RuleOrder : RuleOrder[i] = text

\* C15 (SpecReport): the recommendations are a subsequence of the fixed
\* rule order: every entry is a rule's message and the rules of any two
\* entries stand in the order of the entries, so no rule appears twice.
C15_FixedRuleOrder ==
    rs.done =>
        LET recs == rs.out.body.recommendations
        IN  /\ \A i \in DOMAIN recs : recs[i].text \in Rules
            /\ \A i, j \in DOMAIN recs :
                   i < j => RuleIndex(recs[i].text) < RuleIndex(recs[j].text)

\* A report with a basic rule, a probe rule and a page rule of the second
\* group, in that order.
C15_Witness ==
    /\ rs.done
    /\ rs.out.body.recommendations =
           <<Rec("Add at least one H1 heading", 0),
             Rec("Add a robots.txt", 0),
             Rec("N structured-data blocks contain invalid JSON", 1)>>

(***************************************************************************)
(* Claims under SpecSubsets.                                               *)
(***************************************************************************)
\* C16 as stated (SpecSubsets): for every subset of the eleven rules there
\* is an analysis whose recommendations are exactly that subset.
C16_EverySubsetFires ==
    /\ AllRuleTexts = Rules
    /\ sub.searched => sub.found

StructuredDataPair ==
    {"Implement schema.org structured data",
     "N structured-data blocks contain invalid JSON"}

\* C16, amended (SpecSubsets): a subset of the eleven rules is the
\* recommendations list of some analysis exactly when it does not hold both
\* 'Implement schema.org structured data' and 'N structured-data blocks
\* contain invalid JSON'.
C16_SubsetsWithoutThePair ==
    /\ AllRuleTexts = Rules
    /\ sub.searched => (sub.found <=> ~(StructuredDataPair \subseteq sub.target))

\* Ten rules at once: all but the rule on missing structured data.
C16_Witness ==
    /\ sub.searched
    /\ sub.found
    /\ sub.target = Rules \ {"Implement schema.org structured data"}

(***************************************************************************)
(* Claims under Spec, on the order of the probes.                          *)
(***************************************************************************)
Issued(call) == \E i \in DOMAIN netCalls : netCalls[i] = call

\* C17: the auxiliary probes are issued concurrently with one another:
\* while the security-header HEAD is outstanding the robots.txt and
\* sitemap.xml requests are issued too (no probe waits for the answer of
\* another).
C17_ProbesIssuedTogether ==
    pc = "awaitSecHead" => Issued("GET robots.txt") /\ Issued("GET sitemap.xml")

(***************************************************************************)
(* Claims under SpecConcurrent.                                            *)
(***************************************************************************)
\* C18 (SpecConcurrent): no accepted request is left unanswered, given that
\* every network call completes or hits its own timeout: when the process
\* has ended, every request it accepted has been sent its response (one
\* that has not by then never will); and once the 30 s timer has expired
\* the client has been sent the timeout error.
C18_NoRequestLeftUnanswered ==
    /\ process = "down" => (pc # "idle" => Answered) /\ peer \in {"none", "answered"}
    /\ timer = "fired" => Answered /\ responses[1].status = 504

\* C19 (SpecConcurrent): a request in flight next to this one is answered
\* as if this one had never been issued: nothing in this request's handling
\* ends the process or leaves the other request without its response.
C19_PeerUnaffected == process # "down" /\ peer # "dropped"

(***************************************************************************)
(* Claims under SpecReport, on the fields of the report.                   *)
(***************************************************************************)
\* C20 (SpecReport): every 200 report holds the heading profile (counts and
\* first-H1 text), the security-header profile, robotsInfo, sitemapInfo,
\* the four scores and the recommendations list.
C20_ReportAggregatesAll ==
    rs.done =>
        {"headings", "h1Text", "securityHeaders", "robotsInfo", "sitemapInfo", "scores",
         "recommendations"} \subseteq DOMAIN rs.out.body

(***************************************************************************)
(* Claims under Spec, on the timer and the order of the calls.             *)
(***************************************************************************)
\* C21: at most one response is written per request: the handler never
\* attempts to send a response after one has been sent, in any interleaving
\* of the timer's callback with the success path and the error path.
C21_SingleResponseAttempt == writeErrors = 0

ProbeCalls == {"HEAD page", "GET robots.txt", "GET sitemap.xml", "HEAD image"}

\* C22: the primary fetch is a hard prerequisite: a probe request is issued
\* and an extractor runs only after the primary GET has completed
\* successfully, and none ever is for a request whose primary GET failed.
C22_PrimaryIsPrerequisite ==
    /\ (\E call \in ProbeCalls : Issued(call)) =>
           primary.kind = "ok" /\ netCalls[1] = "GET page"
    /\ page # NoPage => primary.kind = "ok"
    /\ primary.kind = "error" =>
           page = NoPage /\ \A call \in ProbeCalls : ~Issued(call)

\* The page has arrived and the first probe is outstanding.
C22_Witness ==
    /\ pc = "awaitSecHead"
    /\ primary.kind = "ok"
    /\ netCalls = <<"GET page", "HEAD page">>

\* C23: a slow probe never fails the report: a 504 is sent only when the
\* primary fetch itself exceeded the 30 s bound, never while the handler
\* waits for a probe.
C23_504OnlyForPrimary ==
    (Answered /\ responses[1].status = 504) => firedAt = "awaitPrimary"

(***************************************************************************)
(* Claims under SpecSignals.                                               *)
(***************************************************************************)
\* the href matches one of the internal patterns for page URL u
MatchesInternal(href, u) ==
    \E prefix \in {<<"/">>, UrlPieces(u), <<"http", "://", "site.test">>,
                   <<"http", "s", "://", "site.test">>} : StartsWith(href, prefix)

\* C24 (SpecSignals): the link counts partition the anchors: every anchor
\* whose href matches an internal pattern is counted internal, none of
\* them is counted external, and internalLinks + externalLinks is at most
\* the number of anchors.
C24_LinksPartition ==
    rs.done =>
        LET as == rs.in.page.anchors
            internal == {i \in DOMAIN as : MatchesInternal(as[i], rs.in.url)}
        IN  /\ rs.out.body.internalLinks = Cardinality(internal)
            /\ rs.out.body.externalLinks <= Len(as) - Cardinality(internal)
            /\ rs.out.body.internalLinks + rs.out.body.externalLinks <= Len(as)

\* An anchor to the page's own host, which begins with "http" too, and an
\* anchor to another host: one internal, one external.
C24_Witness ==
    /\ rs.done
    /\ rs.in.url = "https://site.test/"
    /\ rs.in.page.anchors = <<<<"http", "://", "site.test", "/">>,
                              <<"http", "s", "://", "other.test", "/">>>>
    /\ rs.out.body.internalLinks = 1
    /\ rs.out.body.externalLinks = 1

\* the text content, trimmed, of each first match of FirstH1Matches
TextContent(first) ==
    CASE first = WelcomeH1 -> "Welcome"
      [] Len(first) = 9 -> "Hello World"
      [] OTHER -> ""

\* C25 (SpecSignals): h1Text is the trimmed text of the first regex match
\* without its tags, whatever the text of the first parsed h1 is; it is
\* empty when the regex strategy matched no h1, even when h1Count > 0; and
\* when no strategy finds a heading the report is sent with six counts of
\* 0 and an empty h1Text.
C25_H1TextFromRegex ==
    rs.done =>
        LET h == rs.in.page.heads
            body == rs.out.body
        IN  /\ h.regex[1] > 0 => body.h1Text = TextContent(h.firstH1)
            /\ h.regex[1] = 0 => body.h1Text = ""
            /\ h = NoHeadings =>
                   /\ body.sent
                   /\ \A n \in Levels : body.headings[n] = 0
                   /\ body.h1Text = ""

\* The first match lies in a comment and the first parsed h1 reads "Old".
C25_Witness ==
    /\ rs.done
    /\ rs.in.page.heads.dom[1] = 1
    /\ rs.in.page.heads.domH1Text = "Old"
    /\ Len(rs.in.page.heads.firstH1) = 9
    /\ rs.out.body.h1Text = "Hello World"

CachingText == "Serve static assets with far-future Cache-Control headers"

\* C26 (SpecSignals): cachingInfo.good is true exactly when the Cache-Control
\* header of the page's own response carries a max-age above 2,592,000
\* (false at 2,592,000, without the header and without max-age), whatever
\* the probes answered, and the far-future Cache-Control recommendation is
\* in the list exactly when good is false.
C26_CachingFromPrimary ==
    rs.done =>
        LET cc == rs.in.page.cacheControl
            body == rs.out.body
        IN  /\ body.cachingInfo.good <=> (cc.present /\ cc.maxAge > 2592000)
            /\ body.cachingInfo.maxAgeSeconds = (IF cc.present /\ cc.maxAge >= 0 THEN cc.maxAge ELSE 0)
            /\ CachingText \in Fired(body) <=> ~body.cachingInfo.good

\* max-age of thirty days exactly: not good, recommendation emitted.
C26_Witness ==
    /\ rs.done
    /\ rs.in.page.cacheControl = [present |-> TRUE, maxAge |-> 2592000]
    /\ ~rs.out.body.cachingInfo.good
    /\ CachingText \in Fired(rs.out.body)

(***************************************************************************)
(* Claims under SpecSampler.                                               *)
(***************************************************************************)
ImageHeads == Cardinality({k \in DOMAIN netCalls : netCalls[k] = "HEAD image"})
\* the images among the first five that have a usable src
Usable == {k \in 1..Min(5, Len(page.imgs)) : page.imgs[k].src = "ok"}

C27_SamplerState ==
    /\ ImageHeads <= 5
    /\ ImageHeads <= Cardinality(Usable)
    /\ pc = "awaitImage" => imgLoop.i \in Usable
    /\ pc = "done" =>
           LET info == imageSizeInfo(imgLoop)
           IN  /\ ImageHeads = Cardinality(Usable)
               /\ info.sampled <= Min(5, Len(page.imgs))
               /\ info.sampled <= ImageHeads
               /\ info.sampled = 0 => info.avgSize = 0
               /\ info.sampled > 0 =>
                      /\ 2 * info.avgSize * info.sampled <= 2 * imgLoop.total + info.sampled
                      /\ 2 * imgLoop.total + info.sampled < 2 * (info.avgSize + 1) * info.sampled
               /\ report.sent => report.imageSizeInfo = info /\ report.imgCount = Len(page.imgs)

\* one HEAD answer adds its Content-Length and one sample, or nothing, and
\* the next HEAD is for a later image
C27_SamplerStep ==
    pc = "awaitImage" =>
        /\ <<imgLoop'.total - imgLoop.total, imgLoop'.counted - imgLoop.counted>>
               \in {<<0, 0>>, <<100, 1>>, <<201, 1>>}
        /\ netCalls' # netCalls => imgLoop'.i > imgLoop.i

\* C27 (SpecSampler): the sampler issues at most 5 HEAD requests, one for
\* each of the first 5 images that has a usable src, whatever the earlier
\* ones answered; at the end sampled <= min(5, imgCount), avgSize is the
\* rounded mean of the Content-Length values that were added, and 0 when
\* nothing was sampled.
C27_ImageSampler == []C27_SamplerState /\ [][C27_SamplerStep]_vars

\* Six images, the second without src: four HEADs, two of them counted
\* (100 and 201 bytes), mean 150.5 rounded to 151.
C27_Witness ==
    /\ pc = "done"
    /\ Len(page.imgs) = 6
    /\ page.imgs[2].src = "none"
    /\ ImageHeads = 4
    /\ imgLoop.counted = 2
    /\ imgLoop.total = 301
    /\ report.sent
    /\ report.imageSizeInfo = [sampled |-> 2, avgSize |-> 151]

(***************************************************************************)
(* Claims on the probes under Spec.                                        *)
(***************************************************************************)
\* checkSecurityHeaders has returned
SecHeadDone == pc \in {"awaitRobots", "awaitSitemap", "awaitImage", "done"} /\ page # NoPage

KeywordText == "Use your primary keyword more frequently in body copy"

\* no word of the title is longer than 3 characters and off the stoplist
NoCandidate(title) ==
    \A i \in DOMAIN title : Len(title[i]) <= 3 \/ title[i] \in {"and", "the", "for", "with"}

\* C29 (SpecSignals): with an empty title, an empty body text or a title
\* without a word longer than 3 characters off the stoplist, keywordDensity
\* is 0, the content score is the sum of its other three components and
\* the keyword recommendation is in the list.
C29_NoKeywordNoDensity ==
    rs.done =>
        LET p == rs.in.page
            body == rs.out.body
        IN  (p.title = <<>> \/ p.body = <<>> \/ NoCandidate(p.title)) =>
                /\ body.keywordDensity.n = 0
                /\ body.scores.content =
                       (IF 10 * p.textLength > p.htmlLength THEN 20 ELSE 0) +
                       (IF body.headings[1] = 1 THEN 20 ELSE 0) +
                       (IF body.headings[2] >= 2 THEN 10 ELSE 0)
                /\ KeywordText \in Fired(body)

\* The title "the seo" has only short or stop words although the body reads
\* "seo" twice.
C29_Witness ==
    /\ rs.done
    /\ rs.in.page.title = <<"the", "seo">>
    /\ rs.in.page.body = <<"with", "seo", "seo">>
    /\ rs.out.body.keywordDensity.n = 0
    /\ KeywordText \in Fired(rs.out.body)

SitemapText == "Add a sitemap.xml and reference it in robots.txt"

\* C30 (SpecSignals): sitemapInfo.exists is true exactly when the GET of
\* /sitemap.xml was answered with a status below 400, whatever the body;
\* urlCount is then the number of url entries under urlset (0 when the
\* body does not parse or has no urlset, 1 for a single entry); and the
\* sitemap recommendation is in the list exactly when exists is false.
C30_SitemapExistsAndCount ==
    rs.done =>
        LET o == rs.in.sitemap
            info == rs.out.body.sitemapInfo
        IN  /\ info.exists <=> (o.kind = "response" /\ o.status < 400)
            /\ info.exists => info.urlCount = urlEntries(o)
            /\ SitemapText \in Fired(rs.out.body) <=> ~info.exists

====
